---- MODULE Spec2Model ----
(***************************************************************************)
(* Caltrain Quick: the feed compactor (the GTFS conversion script, in its  *)
(* three-way weekday/weekend/modified variant) and the departure query     *)
(* engine (the pure functions formatTime, getCurrentMinutes,               *)
(* getServiceType and filterTrainsByDestination), and the service worker   *)
(* that answers the page's requests network-first with a cache fallback.   *)
(*                                                                         *)
(* Feed fields are strings, as parseCSV leaves them; a departure_time      *)
(* "HH:MM:SS" is the tuple <<HH, MM, SS>> that split(':').map(Number)      *)
(* yields.  A JavaScript object used as a map is a function whose DOMAIN   *)
(* is the set of keys present; a lookup of an absent key (undefined) is a  *)
(* test of membership in that DOMAIN.                                      *)
(***************************************************************************)
EXTENDS Integers, Sequences, FiniteSets, TLC

VARIABLES
    pc,              \* position of the conversion script
    stopTimes,       \* stop_times.txt, parsed
    calendar,        \* calendar.txt, parsed
    calendarDates,   \* calendar_dates.txt, parsed
    services,        \* service_id -> {weekday, weekend, startDate, endDate}
    holidays,        \* date -> service_id -> {type}
    schedule,        \* stationId -> {northbound, southbound}
    compactSchedule, \* stationId -> {n, s} of positional tuples
    compactHolidays, \* date -> 1 | 2
    data,            \* the emitted snapshot
    originTrains,    \* the origin bucket the query engine reads
    destTrains,      \* the destination bucket the query engine reads
    clock,           \* the local wall clock and the timezone offset
    fmtMinutes,      \* the minute value handed to formatTime
    call,            \* the last call of a query-engine function and its result
    swPhase,         \* life cycle of the service worker
    caches,          \* CacheStorage: cache name -> request -> response
    server,          \* the network: request -> version the origin serves
    events,          \* the fetch events dispatched to the worker
    puts,            \* the cache.put calls that have not completed
    lastFetched      \* request -> response of the last completed network fetch

feedVars    == <<stopTimes, calendar, calendarDates>>
compactVars == <<services, holidays, schedule, compactSchedule, compactHolidays, data>>
queryVars   == <<originTrains, destTrains, clock, fmtMinutes, call>>
workerVars  == <<swPhase, caches, server, events, puts, lastFetched>>
vars        == <<pc, feedVars, compactVars, queryVars, workerVars>>

----------------------------------------------------------------------------
(* Bounds of the model *)

MaxStopTimes     == 3      \* records of stop_times.txt
MaxExceptions    == 2      \* records of calendar_dates.txt
MaxOrigin        == 2      \* departures of an origin bucket given to a query
MaxDest          == 2      \* departures of a destination bucket given to a query
MaxDays          == 6      \* local calendar days the clock ranges over
MaxFormatMinutes == 2999   \* largest minute value handed to formatTime
MaxFetches       == 3      \* fetch events dispatched to the service worker
MaxVersions      == 2      \* versions of a resource the origin publishes

----------------------------------------------------------------------------
(* Generic helpers *)

EmptyMap == [k \in {} |-> {}]

Range(s) == {s[i] : i \in DOMAIN s}

\* all sequences over S of length at most n
SeqUpTo(S, n) == UNION {[1..k -> S] : k \in 0..n}

\* the number of positions of s holding x
Count(s, x) == Cardinality({i \in DOMAIN s : s[i] = x})

\* Array.prototype.sort with a comparator a.k - b.k: ascending and stable
\* (ECMAScript 2019).  s is a sequence of records with an integer field k.
InsertByKey(s, p) ==
    LET n == Cardinality({i \in DOMAIN s : s[i].k <= p.k})
    IN  SubSeq(s, 1, n) \o <<p>> \o SubSeq(s, n + 1, Len(s))

RECURSIVE StableSortByKey(_)
StableSortByKey(s) ==
    IF s = <<>> THEN <<>>
    ELSE InsertByKey(StableSortByKey(SubSeq(s, 1, Len(s) - 1)), s[Len(s)])

\* parseInt of the decimal fields the feed uses
parseInt(str) ==
    CASE str = "0" -> 0
      [] str = "1" -> 1
      [] str = "2" -> 2
      [] OTHER     -> -1    \* NaN: equal to no number the code compares with

----------------------------------------------------------------------------
(* The feed tables that the model holds fixed *)

\* stops.txt: three parent stations, a shuttle stop, three platforms and a
\* stop that names no parent station
Stops == <<
    [stop_id |-> "A",  stop_name |-> <<"Alpha", "Station">>,   location_type |-> "1",
     parent_station |-> "",  stop_lat |-> 30],
    [stop_id |-> "B",  stop_name |-> <<"Bravo", "Caltrain">>,  location_type |-> "1",
     parent_station |-> "",  stop_lat |-> 40],
    [stop_id |-> "C",  stop_name |-> <<"Charlie">>,            location_type |-> "1",
     parent_station |-> "",  stop_lat |-> 20],
    [stop_id |-> "S",  stop_name |-> <<"Delta", "Shuttle">>,   location_type |-> "1",
     parent_station |-> "",  stop_lat |-> 10],
    [stop_id |-> "a1", stop_name |-> <<"Alpha", "Northbound">>, location_type |-> "0",
     parent_station |-> "A", stop_lat |-> 30],
    [stop_id |-> "b1", stop_name |-> <<"Bravo", "Northbound">>, location_type |-> "0",
     parent_station |-> "B", stop_lat |-> 40],
    [stop_id |-> "s1", stop_name |-> <<"Delta", "Shuttle">>,   location_type |-> "0",
     parent_station |-> "S", stop_lat |-> 10],
    [stop_id |-> "x9", stop_name |-> <<"Orphan">>,             location_type |-> "0",
     parent_station |-> "",  stop_lat |-> 5] >>

\* trips.txt
Trips == <<
    [trip_id |-> "T1", service_id |-> "S1", direction_id |-> "0",
     trip_headsign |-> "North", route_id |-> "R1", trip_short_name |-> "101"],
    [trip_id |-> "T2", service_id |-> "S1", direction_id |-> "0",
     trip_headsign |-> "North", route_id |-> "R2", trip_short_name |-> "102"],
    [trip_id |-> "T3", service_id |-> "H",  direction_id |-> "1",
     trip_headsign |-> "South", route_id |-> "RX", trip_short_name |-> "M1"],
    [trip_id |-> "T4", service_id |-> "S2", direction_id |-> "0",
     trip_headsign |-> "North", route_id |-> "R1", trip_short_name |-> "201"] >>

\* routes.txt
Routes == <<
    [route_id |-> "R1", route_short_name |-> "Local Weekday", route_color |-> "FFFFFF"],
    [route_id |-> "R2", route_short_name |-> "Express",       route_color |-> "CE202F"] >>

\* the index of the last record of table whose field key is id: a later
\* assignment to the same object key overwrites an earlier one
LastIndex(table, key, id) ==
    CHOOSE i \in DOMAIN table :
        /\ table[i][key] = id
        /\ \A j \in DOMAIN table : table[j][key] = id => j <= i

\* stop_name.includes(word)
nameIncludes(s, word) == word \in Range(s.stop_name)

\* .replace(' Station', '').replace(' Caltrain', ''): the first occurrence of
\* each word after the first word of the name is removed
RemoveFirst(name, word) ==
    LET hit == {i \in DOMAIN name : i > 1 /\ name[i] = word}
    IN  IF hit = {} THEN name
        ELSE LET i == CHOOSE x \in hit : \A y \in hit : x <= y
             IN  SubSeq(name, 1, i - 1) \o SubSeq(name, i + 1, Len(name))

mainStations ==
    LET kept   == SelectSeq(Stops, LAMBDA s :
                      /\ s.location_type = "1"
                      /\ ~nameIncludes(s, "Shuttle")
                      /\ ~nameIncludes(s, "Elevator"))
        mapped == [i \in DOMAIN kept |->
                      [k |-> 0 - kept[i].stop_lat,
                       id |-> kept[i].stop_id,
                       name |-> RemoveFirst(RemoveFirst(kept[i].stop_name, "Station"),
                                            "Caltrain"),
                       lat |-> kept[i].stop_lat]]
    IN  StableSortByKey(mapped)

stopToStation ==
    LET ids == {Stops[i].stop_id : i \in {j \in DOMAIN Stops : Stops[j].parent_station # ""}}
        withParent == SelectSeq(Stops, LAMBDA s : s.parent_station # "")
    IN  [id \in ids |-> withParent[LastIndex(withParent, "stop_id", id)].parent_station]

tripInfo ==
    [id \in {Trips[i].trip_id : i \in DOMAIN Trips} |->
        LET t == Trips[LastIndex(Trips, "trip_id", id)]
        IN  [serviceId |-> t.service_id,
             direction |-> parseInt(t.direction_id),
             headsign  |-> t.trip_headsign,
             routeId   |-> t.route_id,
             trainNum  |-> t.trip_short_name]]

routeInfo ==
    [id \in {Routes[i].route_id : i \in DOMAIN Routes} |->
        LET r == Routes[LastIndex(Routes, "route_id", id)]
        IN  [name |-> r.route_short_name, color |-> r.route_color]]

----------------------------------------------------------------------------
(* The stages of the conversion script, as functions of the parsed feed *)

\* services: the service calendar
buildServices(cal) ==
    [id \in {cal[i].service_id : i \in DOMAIN cal} |->
        LET c == cal[LastIndex(cal, "service_id", id)]
        IN  [weekday   |-> (c.monday = "1"),
             weekend   |-> (c.saturday = "1"),
             startDate |-> c.start_date,
             endDate   |-> c.end_date]]

\* a variant that keeps the first record of a date and service, not the last
buildHolidaysFirstWins(cds) ==
    [d \in {cds[i].date : i \in DOMAIN cds} |->
        LET ofDate == {i \in DOMAIN cds : cds[i].date = d}
        IN  [sid \in {cds[i].service_id : i \in ofDate} |->
                LET first == CHOOSE i \in ofDate :
                                 /\ cds[i].service_id = sid
                                 /\ \A j \in ofDate : cds[j].service_id = sid => i <= j
                IN  [type |-> parseInt(cds[first].exception_type),
                     name |-> cds[first].holiday_name]]]

\* holidays: the exception records grouped by date, then by service_id
buildHolidays(cds) ==
    [d \in {cds[i].date : i \in DOMAIN cds} |->
        LET ofDate == {i \in DOMAIN cds : cds[i].date = d}
        IN  [sid \in {cds[i].service_id : i \in ofDate} |->
                LET last == CHOOSE i \in ofDate :
                                /\ cds[i].service_id = sid
                                /\ \A j \in ofDate : cds[j].service_id = sid => j <= i
                IN  [type |-> parseInt(cds[last].exception_type),
                     name |-> cds[last].holiday_name]]]

\* a variant that tests the Saturday flag first
serviceTypeOfSaturdayFirst(svcs, serviceId) ==
    IF serviceId \in DOMAIN svcs
    THEN (IF svcs[serviceId].weekend THEN "weekend" ELSE "weekday")
    ELSE "modified"

\* the service type of a trip's departures
serviceTypeOf(svcs, serviceId) ==
    IF serviceId \in DOMAIN svcs
    THEN (IF svcs[serviceId].weekday THEN "weekday" ELSE "weekend")
    ELSE "modified"

\* a variant that falls back to the stop itself: stopToStation[id] || id
stationOfOrSelf(stopId) ==
    IF stopId \in DOMAIN stopToStation
    THEN [found |-> TRUE, id |-> stopToStation[stopId]]
    ELSE [found |-> TRUE, id |-> stopId]

\* stopToStation[st.stop_id], with the key's presence
stationOf(stopId) ==
    IF stopId \in DOMAIN stopToStation
    THEN [found |-> TRUE, id |-> stopToStation[stopId]]
    ELSE [found |-> FALSE, id |-> ""]

\* the body of stopTimes.forEach: one stop-time record added to sched
stopTimeStep(sched, st, svcs) ==
    IF st.trip_id \notin DOMAIN tripInfo THEN sched
    ELSE IF ~stationOf(st.stop_id).found THEN sched
    ELSE
        LET trip      == tripInfo[st.trip_id]
            stationId == stationOf(st.stop_id).id
            direction == IF trip.direction = 0 THEN "northbound" ELSE "southbound"
            minutes   == st.departure_time[1] * 60 + st.departure_time[2]
            item      == [t |-> minutes,
                          n |-> trip.trainNum,
                          r |-> IF trip.routeId \in DOMAIN routeInfo
                                THEN routeInfo[trip.routeId].name ELSE "Local",
                          s |-> serviceTypeOf(svcs, trip.serviceId),
                          h |-> trip.headsign]
            base      == IF stationId \in DOMAIN sched THEN sched[stationId]
                         ELSE [northbound |-> <<>>, southbound |-> <<>>]
            entry     == [base EXCEPT ![direction] = Append(@, item)]
        IN  [id \in DOMAIN sched \cup {stationId} |->
                IF id = stationId THEN entry ELSE sched[id]]

RECURSIVE buildSchedule(_, _)
buildSchedule(sts, svcs) ==
    IF sts = <<>> THEN EmptyMap
    ELSE stopTimeStep(buildSchedule(SubSeq(sts, 1, Len(sts) - 1), svcs), sts[Len(sts)], svcs)

\* a variant that leaves the bucket in feed order
sortByTimeFeedOrder(bucket) == bucket

\* .sort((a, b) => a.t - b.t)
sortByTime(bucket) ==
    LET keyed  == [i \in DOMAIN bucket |-> [k |-> bucket[i].t, v |-> bucket[i]]]
        sorted == StableSortByKey(keyed)
    IN  [i \in DOMAIN sorted |-> sorted[i].v]

\* .filter((item, idx, arr) => idx === 0 || item.t !== arr[idx-1].t || item.n !== arr[idx-1].n)
dedupe(arr) ==
    LET keep == {i \in DOMAIN arr :
                    i = 1 \/ arr[i].t # arr[i - 1].t \/ arr[i].n # arr[i - 1].n}
        idx(k) == CHOOSE i \in keep : Cardinality({j \in keep : j <= i}) = k
    IN  [k \in 1..Cardinality(keep) |-> arr[idx(k)]]

sortAndDedupe(sched) ==
    [id \in DOMAIN sched |->
        [northbound |-> dedupe(sortByTime(sched[id].northbound)),
         southbound |-> dedupe(sortByTime(sched[id].southbound))]]

routeTypeMap(r) ==
    CASE r = "Local Weekday" -> 0
      [] r = "Local Weekend" -> 0
      [] r = "Local"         -> 0
      [] r = "Limited"       -> 1
      [] r = "Express"       -> 2
      [] r = "South County"  -> 3
      [] OTHER               -> 0

\* the two-way map: t.s === 'weekday' ? 0 : 1
serviceTypeMapTwoWay(s) ==
    IF s = "weekday" THEN 0 ELSE 1

serviceTypeMap(s) ==
    CASE s = "weekday"  -> 0
      [] s = "weekend"  -> 1
      [] s = "modified" -> 2
      [] OTHER          -> 0

compactBucket(bucket) ==
    [i \in DOMAIN bucket |->
        <<bucket[i].t, bucket[i].n, routeTypeMap(bucket[i].r), serviceTypeMap(bucket[i].s)>>]

buildCompactSchedule(sched) ==
    [id \in DOMAIN sched |->
        [n |-> compactBucket(sched[id].northbound),
         s |-> compactBucket(sched[id].southbound)]]

hasModifiedAdded(hol, svcs, date) ==
    \E sid \in DOMAIN hol[date] :
        hol[date][sid].type = 1 /\ sid \notin DOMAIN svcs

hasWeekdayRemoved(hol, svcs, date) ==
    \E sid \in DOMAIN hol[date] :
        hol[date][sid].type = 2 /\ sid \in DOMAIN svcs /\ svcs[sid].weekday

buildCompactHolidays(hol, svcs) ==
    [d \in {x \in DOMAIN hol : hasModifiedAdded(hol, svcs, x) \/ hasWeekdayRemoved(hol, svcs, x)} |->
        IF hasModifiedAdded(hol, svcs, d) THEN 2 ELSE 1]

\* a variant that lists every main station
activeStationsUnfiltered(cs) ==
    mainStations

activeStations(cs) ==
    SelectSeq(mainStations, LAMBDA s :
        s.id \in DOMAIN cs /\ (Len(cs[s.id].n) > 0 \/ Len(cs[s.id].s) > 0))

buildData(cs, ch, cal) ==
    LET act == activeStations(cs)
    IN  [stations  |-> [i \in DOMAIN act |-> [id |-> act[i].id, name |-> act[i].name]],
         schedule  |-> cs,
         holidays  |-> ch,
         validFrom |-> IF Len(cal) > 0 THEN cal[1].start_date ELSE "undefined",
         validTo   |-> IF Len(cal) > 0 THEN cal[1].end_date ELSE "undefined"]

\* the snapshot the script emits for a feed
snapshotOf(sts, cal, cds) ==
    LET svcs == buildServices(cal)
    IN  buildData(buildCompactSchedule(sortAndDedupe(buildSchedule(sts, svcs))),
                  buildCompactHolidays(buildHolidays(cds), svcs),
                  cal)

----------------------------------------------------------------------------
(* The query engine: the pure functions of the page *)

ServiceTypes == {0, 1, 2}

\* String.prototype.padStart(2, '0') of a decimal numeral
padStart2(str) == IF Len(str) >= 2 THEN str ELSE "0" \o str

\* a variant that does not wrap the hour into 0..23
formatTimeNoWrap(minutes) ==
    LET h24  == minutes \div 60
        m    == minutes % 60
        ampm == IF h24 >= 12 THEN "pm" ELSE "am"
        h    == IF h24 % 12 = 0 THEN 12 ELSE h24 % 12
    IN  ToString(h) \o ":" \o padStart2(ToString(m)) \o ampm

formatTime(minutes) ==
    LET h24  == (minutes \div 60) % 24
        m    == minutes % 60
        ampm == IF h24 >= 12 THEN "pm" ELSE "am"
        h    == IF h24 % 12 = 0 THEN 12 ELSE h24 % 12
    IN  ToString(h) \o ":" \o padStart2(ToString(m)) \o ampm

\* null, and a value that is not null
Null    == <<>>
Some(x) == <<x>>

\* a variant whose late-night test also takes 03:00
getCurrentMinutesInclusive(hoursOverride, minutesOverride, now) ==
    LET hours     == IF hoursOverride # Null THEN hoursOverride[1] ELSE now.hours
        mins      == IF minutesOverride # Null THEN minutesOverride[1] ELSE now.minutes
        totalMins == hours * 60 + mins
    IN  IF totalMins <= 180 THEN totalMins + 24 * 60 ELSE totalMins

getCurrentMinutes(hoursOverride, minutesOverride, now) ==
    LET hours     == IF hoursOverride # Null THEN hoursOverride[1] ELSE now.hours
        mins      == IF minutesOverride # Null THEN minutesOverride[1] ELSE now.minutes
        totalMins == hours * 60 + mins
    IN  IF totalMins < 180 THEN totalMins + 24 * 60 ELSE totalMins

(* A Date is an instant: minutes since 2026-01-01T00:00Z, a Thursday.  A    *)
(* local reading is [day, hours, minutes] with day counted from 2026-01-01, *)
(* and tz is the zone's offset from UTC in hours (local = UTC + tz).        *)

\* new Date('YYYY-MM-DDTHH:MM:00'): the string is read as local time
newDate(local, tz) == ((local.day * 24 + local.hours - tz) * 60) + local.minutes

\* Date.prototype.getHours and getDay: in local time
getHours(t, tz) == ((t + tz * 60) \div 60) % 24
getDay(t, tz)   == (4 + ((t + tz * 60) \div 1440)) % 7

\* toISOString().slice(0, 10).replace(/-/g, ''): the UTC date as YYYYMMDD,
\* for December 2025 to February 2026
toISODate(t) ==
    LET d == t \div 1440
    IN  ToString(IF d < 0 THEN 20251232 + d
                 ELSE IF d < 31 THEN 20260101 + d
                 ELSE 20260201 + (d - 31))

getServiceType(local, tz, hol) ==
    LET parsed  == newDate(local, tz)
        now     == IF getHours(parsed, tz) < 3 THEN parsed - 24 * 60 ELSE parsed
        dateStr == toISODate(now)
        day     == getDay(now, tz)
    IN  IF dateStr \in DOMAIN hol /\ hol[dateStr] = 2 THEN "modified"
        ELSE IF dateStr \in DOMAIN hol /\ hol[dateStr] = 1 THEN "weekend"
        ELSE IF day = 0 \/ day = 6 THEN "weekend"
        ELSE "weekday"

endOfDay == 24 * 60 + 120

\* a variant that forgets the service filter on the destination side
destTrainNumsAnyService(dest, serviceFilter) ==
    {dest[i][2] : i \in DOMAIN dest}

destTrainNums(dest, serviceFilter) ==
    {dest[i][2] : i \in {j \in DOMAIN dest : dest[j][4] = serviceFilter}}

\* a variant without the end-of-day cap
filterTrainsByDestinationNoCap(origin, dest, serviceFilter, currentMinutes) ==
    SelectSeq(origin, LAMBDA t :
        /\ t[4] = serviceFilter
        /\ t[1] >= currentMinutes
        /\ t[2] \in destTrainNums(dest, serviceFilter))

filterTrainsByDestination(origin, dest, serviceFilter, currentMinutes) ==
    SelectSeq(origin, LAMBDA t :
        /\ t[4] = serviceFilter
        /\ t[1] >= currentMinutes
        /\ t[1] <= endOfDay
        /\ t[2] \in destTrainNums(dest, serviceFilter))

----------------------------------------------------------------------------
(* Inputs *)

\* departure times "05:10:00" and "24:14:00"
DepartureTimes == {<<5, 10, 0>>, <<24, 14, 0>>}

\* the stop-time records a feed is drawn from: resolvable ones, one naming
\* an unknown trip and one naming a stop without a parent station
StopTimeRecords ==
    [trip_id : {"T1", "T2"}, stop_id : {"a1", "b1"}, departure_time : DepartureTimes]
    \cup {[trip_id |-> "T9", stop_id |-> "a1", departure_time |-> <<5, 10, 0>>],
          [trip_id |-> "T1", stop_id |-> "x9", departure_time |-> <<5, 10, 0>>]}

calendarRow(sid, mon, sat, from, to) ==
    [service_id |-> sid, monday |-> mon, saturday |-> sat,
     start_date |-> from, end_date |-> to]

Flags == {"0", "1"}

\* the calendar of the feeds whose stop-times vary
BaseCalendar ==
    << calendarRow("S1", "1", "0", "20260101", "20261231"),
       calendarRow("S2", "0", "1", "20260101", "20261231") >>

\* the calendars of the feeds whose calendar varies: every setting of the
\* Monday and Saturday flags of service S1
Calendars ==
    { << calendarRow("S1", mon, sat, "20260101", "20261231"),
         calendarRow("S2", "0", "1", "20260101", "20261231") >> :
      mon \in Flags, sat \in Flags }

\* calendars whose rows cover different date ranges, in both row orders
DatedCalendars ==
    { << calendarRow("S1", "1", "0", "20260201", "20260630"),
         calendarRow("S2", "0", "1", "20260101", "20261231") >>,
      << calendarRow("S2", "0", "1", "20260101", "20261231"),
         calendarRow("S1", "1", "0", "20260201", "20260630") >> }

ExceptionRecords ==
    [date : {"20260116", "20260119"}, service_id : {"S1", "H"},
     exception_type : {"1", "2"}, holiday_name : {"Holiday"}]

\* one stop-time of every trip, and two unresolvable records
BaseStopTimes ==
    << [trip_id |-> "T1", stop_id |-> "a1", departure_time |-> <<5, 10, 0>>],
       [trip_id |-> "T1", stop_id |-> "b1", departure_time |-> <<5, 30, 0>>],
       [trip_id |-> "T9", stop_id |-> "a1", departure_time |-> <<5, 40, 0>>],
       [trip_id |-> "T3", stop_id |-> "a1", departure_time |-> <<8, 20, 0>>],
       [trip_id |-> "T4", stop_id |-> "a1", departure_time |-> <<24, 14, 0>>],
       [trip_id |-> "T4", stop_id |-> "b1", departure_time |-> <<24, 34, 0>>] >>

\* the values of "now" a query is made with
NowValues == {300, endOfDay, endOfDay + 1}

\* the departures the buckets of a direct query are drawn from
OriginDepartures ==
    {<<m, n, 0, s>> : m \in {endOfDay, endOfDay + 1}, n \in {"101", "102"}, s \in {0, 1}}
DestDepartures ==
    {<<endOfDay, n, 0, s>> : n \in {"101", "102"}, s \in {0, 1}}

Days      == 14..(13 + MaxDays)          \* 2026-01-15 (a Thursday) onwards
TzOffsets == {-8, 0, 9}
Clocks    == [day : Days, hours : 0..23, minutes : 0..59, tz : TzOffsets]

HolidayDates == {"20260116", "20260119"}     \* a Friday and a Monday
HolidayMaps  ==
    UNION {[D -> {1, 2}] : D \in SUBSET HolidayDates}

NoCall  == [fn |-> "none", args |-> <<>>, ret |-> <<>>]
NoClock == [day |-> 14, hours |-> 12, minutes |-> 0, tz |-> 0]

----------------------------------------------------------------------------
(* Initial states *)

compactIdle ==
    /\ services = EmptyMap
    /\ holidays = EmptyMap
    /\ schedule = EmptyMap
    /\ compactSchedule = EmptyMap
    /\ compactHolidays = EmptyMap
    /\ data = EmptyMap

queryIdle ==
    /\ originTrains = <<>>
    /\ destTrains = <<>>
    /\ clock = NoClock
    /\ fmtMinutes = 0
    /\ call = NoCall

feedIdle ==
    /\ stopTimes = <<>>
    /\ calendar = <<>>
    /\ calendarDates = <<>>

workerIdle ==
    /\ swPhase = "none"
    /\ caches = EmptyMap
    /\ server = EmptyMap
    /\ events = <<>>
    /\ puts = {}
    /\ lastFetched = EmptyMap

\* the script has parsed a feed whose stop-times are arbitrary
Init ==
    /\ pc = "parsed"
    /\ stopTimes \in SeqUpTo(StopTimeRecords, MaxStopTimes)
    /\ calendar = BaseCalendar
    /\ calendarDates = <<>>
    /\ compactIdle
    /\ queryIdle
    /\ workerIdle

\* the script has parsed a feed whose calendar and exceptions are arbitrary
InitCalendar ==
    /\ pc = "parsed"
    /\ stopTimes = BaseStopTimes
    /\ calendar \in Calendars \cup DatedCalendars
    /\ calendarDates \in SeqUpTo(ExceptionRecords, MaxExceptions)
    /\ compactIdle
    /\ queryIdle
    /\ workerIdle

\* the page holds arbitrary buckets
InitQuery ==
    /\ pc = "page"
    /\ feedIdle
    /\ compactIdle
    /\ originTrains \in SeqUpTo(OriginDepartures, MaxOrigin)
    /\ destTrains \in SeqUpTo(DestDepartures, MaxDest)
    /\ clock = NoClock
    /\ fmtMinutes = 0
    /\ call = NoCall
    /\ workerIdle

\* the page runs at an arbitrary local time in an arbitrary zone
InitClock ==
    /\ pc = "page"
    /\ feedIdle
    /\ compactIdle
    /\ originTrains = <<>>
    /\ destTrains = <<>>
    /\ clock \in Clocks
    /\ fmtMinutes = 0
    /\ call = NoCall
    /\ workerIdle

\* the page formats an arbitrary minute value
InitFormat ==
    /\ pc = "page"
    /\ feedIdle
    /\ compactIdle
    /\ originTrains = <<>>
    /\ destTrains = <<>>
    /\ clock = NoClock
    /\ fmtMinutes \in 0..MaxFormatMinutes
    /\ call = NoCall
    /\ workerIdle

----------------------------------------------------------------------------
(* The conversion script, stage by stage *)

BuildServices ==
    /\ pc = "parsed"
    /\ services' = buildServices(calendar)
    /\ pc' = "services"
    /\ UNCHANGED <<feedVars, holidays, schedule, compactSchedule, compactHolidays, data,
                   queryVars, workerVars>>

BuildHolidays ==
    /\ pc = "services"
    /\ holidays' = buildHolidays(calendarDates)
    /\ pc' = "holidays"
    /\ UNCHANGED <<feedVars, services, schedule, compactSchedule, compactHolidays, data,
                   queryVars, workerVars>>

BuildSchedule ==
    /\ pc = "holidays"
    /\ schedule' = buildSchedule(stopTimes, services)
    /\ pc' = "schedule"
    /\ UNCHANGED <<feedVars, services, holidays, compactSchedule, compactHolidays, data,
                   queryVars, workerVars>>

SortAndDedupe ==
    /\ pc = "schedule"
    /\ schedule' = sortAndDedupe(schedule)
    /\ pc' = "sorted"
    /\ UNCHANGED <<feedVars, services, holidays, compactSchedule, compactHolidays, data,
                   queryVars, workerVars>>

CompactSchedule ==
    /\ pc = "sorted"
    /\ compactSchedule' = buildCompactSchedule(schedule)
    /\ pc' = "compacted"
    /\ UNCHANGED <<feedVars, services, holidays, schedule, compactHolidays, data,
                   queryVars, workerVars>>

CompactHolidays ==
    /\ pc = "compacted"
    /\ compactHolidays' = buildCompactHolidays(holidays, services)
    /\ pc' = "holidaysCompacted"
    /\ UNCHANGED <<feedVars, services, holidays, schedule, compactSchedule, data,
                   queryVars, workerVars>>

Emit ==
    /\ pc = "holidaysCompacted"
    /\ data' = buildData(compactSchedule, compactHolidays, calendar)
    /\ pc' = "emitted"
    /\ UNCHANGED <<feedVars, services, holidays, schedule, compactSchedule,
                   compactHolidays, queryVars, workerVars>>

----------------------------------------------------------------------------
(* The page *)

stationIds(d) == {d.stations[i].id : i \in DOMAIN d.stations}

\* the user selects an origin, a destination and a direction of the
\* emitted snapshot: the page reads the two buckets
Select(originId, destId, dir) ==
    /\ pc = "emitted"
    /\ originId \in stationIds(data)
    /\ destId \in stationIds(data)
    /\ originTrains' = data.schedule[originId][dir]
    /\ destTrains' = data.schedule[destId][dir]
    /\ call' = NoCall
    /\ UNCHANGED <<pc, feedVars, compactVars, clock, fmtMinutes,
                   workerVars>>

\* a variant that filters the origin bucket in place
QueryInPlace(serviceFilter, currentMinutes) ==
    /\ pc \in {"emitted", "page"}
    /\ call' = [fn   |-> "filterTrainsByDestination",
                args |-> <<serviceFilter, currentMinutes>>,
                ret  |-> filterTrainsByDestination(originTrains, destTrains,
                                                   serviceFilter, currentMinutes)]
    /\ originTrains' = call'.ret
    /\ UNCHANGED <<pc, feedVars, compactVars, destTrains, clock, fmtMinutes,
                   workerVars>>

Query(serviceFilter, currentMinutes) ==
    /\ pc \in {"emitted", "page"}
    /\ call' = [fn   |-> "filterTrainsByDestination",
                args |-> <<serviceFilter, currentMinutes>>,
                ret  |-> filterTrainsByDestination(originTrains, destTrains,
                                                   serviceFilter, currentMinutes)]
    /\ UNCHANGED <<pc, feedVars, compactVars, originTrains, destTrains, clock, fmtMinutes,
                   workerVars>>

\* getCurrentMinutes(): the clock is read
GetCurrentMinutes ==
    /\ pc = "page"
    /\ call' = [fn   |-> "getCurrentMinutes",
                args |-> <<Null, Null>>,
                ret  |-> getCurrentMinutes(Null, Null, clock)]
    /\ UNCHANGED <<pc, feedVars, compactVars, originTrains, destTrains, clock, fmtMinutes,
                   workerVars>>

\* getCurrentMinutes(h, m): the reading is handed over
GetCurrentMinutesAt(h, m) ==
    /\ pc = "page"
    /\ call' = [fn   |-> "getCurrentMinutes",
                args |-> <<Some(h), Some(m)>>,
                ret  |-> getCurrentMinutes(Some(h), Some(m), clock)]
    /\ UNCHANGED <<pc, feedVars, compactVars, originTrains, destTrains, clock, fmtMinutes,
                   workerVars>>

GetServiceType(hol) ==
    /\ pc = "page"
    /\ call' = [fn   |-> "getServiceType",
                args |-> <<hol>>,
                ret  |-> getServiceType(clock, clock.tz, hol)]
    /\ UNCHANGED <<pc, feedVars, compactVars, originTrains, destTrains, clock, fmtMinutes,
                   workerVars>>

FormatTime ==
    /\ pc = "page"
    /\ call' = [fn   |-> "formatTime",
                args |-> <<fmtMinutes>>,
                ret  |-> formatTime(fmtMinutes)]
    /\ UNCHANGED <<pc, feedVars, compactVars, originTrains, destTrains, clock, fmtMinutes,
                   workerVars>>

----------------------------------------------------------------------------
(* The service worker *)

CACHE_NAME == "caltrain-quick-v1"

ASSETS ==
    << "./", "./index.html", "./schedule-data.min.json", "./manifest.json",
       "./icon-192.png", "./icon-512.png" >>

\* the cache a previous version of the worker left behind
OldCacheName == "caltrain-quick-v0"

\* the requests the page makes: an asset and a resource that is no asset
Requests == {"./schedule-data.min.json", "./favicon.ico"}

\* object[key] = value
mapPut(f, k, v) == [x \in DOMAIN f \cup {k} |-> IF x = k THEN v ELSE f[x]]

\* caches.open(name): the cache is created when it does not exist
cachesOpen(cs, name) == IF name \in DOMAIN cs THEN cs ELSE mapPut(cs, name, EmptyMap)

\* cache.addAll(ASSETS): every asset is fetched and stored
addAll(cache, srv) ==
    [r \in DOMAIN cache \cup Range(ASSETS) |->
        IF r \in Range(ASSETS) THEN srv[r] ELSE cache[r]]

\* cache.put(request, response)
cachePut(cs, name, request, response) ==
    LET opened == cachesOpen(cs, name)
    IN  mapPut(opened, name, mapPut(opened[name], request, response))

\* caches.match(request): the entry of the first cache, in creation order,
\* that holds the request, or undefined
cachesMatch(cs, request) ==
    LET hits == {n \in DOMAIN cs : request \in DOMAIN cs[n]}
    IN  IF hits = {} THEN Null
        ELSE IF OldCacheName \in hits THEN Some(cs[OldCacheName][request])
        ELSE Some(cs[CHOOSE n \in hits : TRUE][request])

\* keys.filter(k => k !== CACHE_NAME).map(k => caches.delete(k))
deleteOldCaches(cs) == [n \in DOMAIN cs \cap {CACHE_NAME} |-> cs[n]]

\* a worker of this version is being installed, with or without the cache
\* of a previous version
InitWorker ==
    /\ pc = "worker"
    /\ feedIdle
    /\ compactIdle
    /\ queryIdle
    /\ swPhase = "installing"
    /\ caches \in {EmptyMap,
                   [n \in {OldCacheName} |-> [r \in Requests |-> 1]]}
    /\ server = [r \in Range(ASSETS) \cup Requests |-> 1]
    /\ events = <<>>
    /\ puts = {}
    /\ lastFetched = EmptyMap

\* the install event: addAll stores every asset or, when a fetch fails,
\* rejects and the worker is discarded
Install(ok) ==
    /\ swPhase = "installing"
    /\ IF ok
       THEN /\ caches' = mapPut(cachesOpen(caches, CACHE_NAME), CACHE_NAME,
                                addAll(cachesOpen(caches, CACHE_NAME)[CACHE_NAME], server))
            /\ swPhase' = "installed"
       ELSE /\ caches' = cachesOpen(caches, CACHE_NAME)
            /\ swPhase' = "redundant"
    /\ UNCHANGED <<pc, feedVars, compactVars, queryVars, server, events, puts, lastFetched>>

\* the activate event
Activate ==
    /\ swPhase = "installed"
    /\ caches' = deleteOldCaches(caches)
    /\ swPhase' = "active"
    /\ UNCHANGED <<pc, feedVars, compactVars, queryVars, server, events, puts, lastFetched>>

\* the origin publishes a new version of a resource
Publish(request) ==
    /\ swPhase = "active"
    /\ server[request] < MaxVersions
    /\ server' = [server EXCEPT ![request] = @ + 1]
    /\ UNCHANGED <<pc, feedVars, compactVars, queryVars, swPhase, caches, events, puts,
                   lastFetched>>

\* the fetch event: e.respondWith(fetch(e.request)...) starts the network
\* fetch
Fetch(request) ==
    /\ swPhase = "active"
    /\ Len(events) < MaxFetches
    /\ events' = Append(events, [request |-> request, stage |-> "fetching",
                                 outcome |-> "pending", response |-> Null])
    /\ UNCHANGED <<pc, feedVars, compactVars, queryVars, swPhase, caches, server, puts,
                   lastFetched>>

\* .then(response => ...): the fetch of event i resolves; the clone is
\* handed to caches.open(...).then(cache.put), which is not awaited, and the
\* response is returned to the page
NetworkResponds(i) ==
    /\ i \in DOMAIN events
    /\ events[i].stage = "fetching"
    /\ LET response == server[events[i].request]
       IN  /\ events' = [events EXCEPT ![i] = [@ EXCEPT !.stage = "responded",
                                                        !.outcome = "network",
                                                        !.response = Some(response)]]
           /\ puts' = puts \cup {[event |-> i, request |-> events[i].request,
                                  response |-> response]}
           /\ lastFetched' = mapPut(lastFetched, events[i].request, response)
    /\ UNCHANGED <<pc, feedVars, compactVars, queryVars, swPhase, caches, server>>

\* .catch(() => caches.match(e.request)): the fetch of event i rejects
NetworkFails(i) ==
    /\ i \in DOMAIN events
    /\ events[i].stage = "fetching"
    /\ events' = [events EXCEPT ![i] = [@ EXCEPT !.stage = "matching",
                                                 !.outcome = "failed"]]
    /\ UNCHANGED <<pc, feedVars, compactVars, queryVars, swPhase, caches, server, puts,
                   lastFetched>>

\* caches.match of event i resolves and the page receives its result
CacheMatch(i) ==
    /\ i \in DOMAIN events
    /\ events[i].stage = "matching"
    /\ events' = [events EXCEPT ![i] = [@ EXCEPT !.stage = "responded",
                                                 !.response = cachesMatch(caches, events[i].request)]]
    /\ UNCHANGED <<pc, feedVars, compactVars, queryVars, swPhase, caches, server, puts,
                   lastFetched>>

\* a pending cache.put completes; the pending writes complete in any order
CachePut(i) ==
    /\ \E p \in puts :
          /\ p.event = i
          /\ caches' = cachePut(caches, CACHE_NAME, p.request, p.response)
          /\ puts' = puts \ {p}
    /\ UNCHANGED <<pc, feedVars, compactVars, queryVars, swPhase, server, events,
                   lastFetched>>

----------------------------------------------------------------------------
(* Specifications *)

Next ==
    \/ BuildServices
    \/ BuildHolidays
    \/ BuildSchedule
    \/ SortAndDedupe
    \/ CompactSchedule
    \/ CompactHolidays
    \/ Emit
    \/ \E o \in {"A", "B", "C"}, d \in {"A", "B", "C"}, dir \in {"n", "s"} : Select(o, d, dir)
    \/ \E s \in ServiceTypes, now \in NowValues : Query(s, now)

NextQuery == \E s \in ServiceTypes, now \in NowValues : Query(s, now)

NextClock ==
    \/ GetCurrentMinutes
    \/ GetCurrentMinutesAt(clock.hours, clock.minutes)
    \/ \E hol \in HolidayMaps : GetServiceType(hol)

NextFormat == FormatTime

NextWorker ==
    \/ \E ok \in BOOLEAN : Install(ok)
    \/ Activate
    \/ \E r \in Requests : Publish(r)
    \/ \E r \in Requests : Fetch(r)
    \/ \E i \in 1..MaxFetches : NetworkResponds(i)
    \/ \E i \in 1..MaxFetches : NetworkFails(i)
    \/ \E i \in 1..MaxFetches : CacheMatch(i)
    \/ \E i \in 1..MaxFetches : CachePut(i)

\* compaction of feeds with arbitrary stop-times, and queries on the snapshot
Spec         == Init /\ [][Next]_vars
\* compaction of feeds with arbitrary calendars and exceptions
SpecCalendar == InitCalendar /\ [][Next]_vars
\* queries on arbitrary buckets
SpecQuery    == InitQuery /\ [][NextQuery]_vars
\* the clock functions at arbitrary local times
SpecClock    == InitClock /\ [][NextClock]_vars
\* formatTime at arbitrary minute values
SpecFormat   == InitFormat /\ [][NextFormat]_vars
\* the service worker under interleaved fetch events
SpecWorker   == InitWorker /\ [][NextWorker]_vars

----------------------------------------------------------------------------
(* Properties of the query on arbitrary buckets (SpecQuery) *)

isQuery == call.fn = "filterTrainsByDestination"

\* the four conditions of the query contract, for a departure d of the origin
matchesQuery(d, dest, serviceType, nowMinutes) ==
    /\ d[4] = serviceType
    /\ nowMinutes <= d[1]
    /\ d[1] <= 1560
    /\ \E j \in DOMAIN dest : dest[j][2] = d[2] /\ dest[j][4] = serviceType

\* C1: the query returns exactly the origin departures of the asked service
\* type, with nowMinutes <= minute <= 1560, whose train number occurs at the
\* destination under the same service type: each such departure is returned
\* as often as the origin bucket holds it, and nothing else is returned.
C1_QueryReturnsExactlyTheMatches ==
    isQuery =>
        \A d \in Range(originTrains) \cup Range(call.ret) :
            Count(call.ret, d) =
                IF matchesQuery(d, destTrains, call.args[1], call.args[2])
                THEN Count(originTrains, d) ELSE 0

\* a query that returned a departure and left out another one whose train is
\* at the destination only under a different service type
C1_Witness ==
    /\ isQuery
    /\ call.ret # <<>>
    /\ \E i \in DOMAIN originTrains :
          /\ originTrains[i][4] = call.args[1]
          /\ call.args[2] <= originTrains[i][1]
          /\ originTrains[i][1] <= 1560
          /\ \E j \in DOMAIN destTrains :
                destTrains[j][2] = originTrains[i][2] /\ destTrains[j][4] # call.args[1]
          /\ originTrains[i] \notin Range(call.ret)

----------------------------------------------------------------------------
(* Properties of the compaction of arbitrary stop-times (Spec) *)

Directions == {"n", "s"}

\* ascending order of minute
isAscending(bucket) ==
    \A i \in 1..(Len(bucket) - 1) : bucket[i][1] <= bucket[i + 1][1]

\* a is b with some of its elements left out, the order kept
RECURSIVE isSubsequence(_, _)
isSubsequence(a, b) ==
    IF a = <<>> THEN TRUE
    ELSE IF b = <<>> THEN FALSE
    ELSE IF Head(a) = Head(b) THEN isSubsequence(Tail(a), Tail(b))
    ELSE isSubsequence(a, Tail(b))

\* C2: every bucket of an emitted snapshot is in ascending order of minute,
\* and the list a query on the snapshot returns is an order-preserving
\* subsequence of the origin bucket, in ascending order of minute.
C2_QueryResultAscending ==
    pc = "emitted" =>
        /\ \A id \in DOMAIN data.schedule : \A dir \in Directions :
              isAscending(data.schedule[id][dir])
        /\ isQuery => /\ isAscending(call.ret)
                      /\ isSubsequence(call.ret, originTrains)

\* a feed whose records came later-departure-first, and a query on its
\* snapshot that returned two departures at different minutes
C2_Witness ==
    /\ pc = "emitted"
    /\ isQuery
    /\ \E i \in DOMAIN stopTimes : \E j \in DOMAIN stopTimes :
          /\ i < j
          /\ stopTimes[i].stop_id = stopTimes[j].stop_id
          /\ stopTimes[i].departure_time[1] > stopTimes[j].departure_time[1]
    /\ Len(call.ret) >= 2
    /\ call.ret[1][1] < call.ret[2][1]

\* C7: in every bucket of the emitted snapshot no two departures share both
\* minute and trainNumber.
C7_NoDuplicateDepartures ==
    pc = "emitted" =>
        \A id \in DOMAIN data.schedule : \A dir \in Directions :
            LET bucket == data.schedule[id][dir]
            IN  \A i \in DOMAIN bucket : \A j \in DOMAIN bucket :
                    (i # j) => ~(bucket[i][1] = bucket[j][1] /\ bucket[i][2] = bucket[j][2])

\* a stop-time record the script skips: its trip is not in trips.txt, or its
\* stop names no parent station in stops.txt
unresolvable(st) ==
    \/ ~\E i \in DOMAIN Trips : Trips[i].trip_id = st.trip_id
    \/ ~\E i \in DOMAIN Stops :
            Stops[i].stop_id = st.stop_id /\ Stops[i].parent_station # ""

\* the number of departures a snapshot holds
departureCount(d) ==
    LET total[S \in SUBSET DOMAIN d.schedule] ==
            IF S = {} THEN 0
            ELSE LET id == CHOOSE x \in S : TRUE
                 IN  Len(d.schedule[id].n) + Len(d.schedule[id].s) + total[S \ {id}]
    IN  total[DOMAIN d.schedule]

\* C10: the emitted snapshot is the snapshot of the feed with the
\* unresolvable stop-time records deleted, and it holds no more departures
\* than the feed has resolvable records.
C10_UnresolvableRecordsSkipped ==
    pc = "emitted" =>
        LET kept == SelectSeq(stopTimes, LAMBDA st : ~unresolvable(st))
        IN  /\ data = snapshotOf(kept, calendar, calendarDates)
            /\ departureCount(data) <= Len(kept)

\* a feed with a record of an unknown trip, a record of a stop without
\* parent station and a resolvable record, compacted and emitted
C10_Witness ==
    /\ pc = "emitted"
    /\ \E i \in DOMAIN stopTimes : stopTimes[i].trip_id = "T9"
    /\ \E i \in DOMAIN stopTimes : stopTimes[i].stop_id = "x9"
    /\ \E i \in DOMAIN stopTimes : ~unresolvable(stopTimes[i])
    /\ departureCount(data) = 1

\* some resolvable stop-time record of the feed is at a stop of station id
hasStopTimeAt(id) ==
    \E i \in DOMAIN stopTimes :
        /\ ~unresolvable(stopTimes[i])
        /\ \E j \in DOMAIN Stops :
              /\ Stops[j].stop_id = stopTimes[i].stop_id
              /\ Stops[j].parent_station = id

\* C12: every station of the emitted stations list has at least one
\* departure in its n or its s bucket, and a parent station at which the
\* feed has no stop-time is not listed.
C12_ListedStationsHaveDepartures ==
    pc = "emitted" =>
        /\ \A id \in stationIds(data) :
              /\ id \in DOMAIN data.schedule
              /\ Len(data.schedule[id].n) + Len(data.schedule[id].s) >= 1
        /\ \A j \in DOMAIN Stops :
              (Stops[j].location_type = "1" /\ ~hasStopTimeAt(Stops[j].stop_id))
                  => Stops[j].stop_id \notin stationIds(data)

\* a feed with stop-times at station A only: A is the one station listed,
\* the parent stations B and C are left out
C12_Witness ==
    /\ pc = "emitted"
    /\ hasStopTimeAt("A")
    /\ ~hasStopTimeAt("B")
    /\ [i \in DOMAIN data.stations |-> data.stations[i].id] = <<"A">>

----------------------------------------------------------------------------
(* Properties of the clock functions (SpecClock) *)

isMinutesCall == call.fn = "getCurrentMinutes"
isServiceCall == call.fn = "getServiceType"

\* C3: for local time h:m the result is h*60+m+1440 when h < 3 and h*60+m
\* when h >= 3; 02:59 gives 1619, 03:00 gives 180, and every result lies in
\* 180..1619.
C3_CurrentServiceMinutes ==
    isMinutesCall =>
        LET h == clock.hours
            m == clock.minutes
        IN  /\ h < 3  => call.ret = h * 60 + m + 1440
            /\ h >= 3 => call.ret = h * 60 + m
            /\ (h = 2 /\ m = 59) => call.ret = 1619
            /\ (h = 3 /\ m = 0)  => call.ret = 180
            /\ call.ret \in 180..1619

\* the clock read at 02:59, the last minute of the service day
C3_Witness ==
    /\ isMinutesCall
    /\ call.args = <<Null, Null>>
    /\ clock.hours = 2
    /\ clock.minutes = 59
    /\ call.ret = 1619

\* the YYYYMMDD string of the local calendar date that is `day` days after
\* 2026-01-01, and its day of the week (0 = Sunday)
localDateString(day) ==
    ToString(IF day < 0 THEN 20251232 + day
             ELSE IF day < 31 THEN 20260101 + day
             ELSE 20260201 + (day - 31))
localWeekday(day) == (4 + day) % 7

\* the service type of a calendar date: the holiday map first, then the
\* Saturday/Sunday rule
classifyDate(day, hol) ==
    LET key == localDateString(day)
    IN  IF key \in DOMAIN hol /\ hol[key] = 2 THEN "modified"
        ELSE IF key \in DOMAIN hol /\ hol[key] = 1 THEN "weekend"
        ELSE IF localWeekday(day) \in {0, 6} THEN "weekend"
        ELSE "weekday"

\* C4: at a local hour of 3 or later, in any zone, the result is the
\* classification of the timestamp's own local calendar date.
C4_ClassifiesLocalDate ==
    (isServiceCall /\ clock.hours >= 3) =>
        call.ret = classifyDate(clock.day, call.args[1])

\* C5: at a local hour before 3 the result is the classification of the
\* previous local calendar date (holiday lookup and Saturday/Sunday test
\* alike); at exactly 03:00 the timestamp's own date is used.
C5_BeforeThreeUsesPreviousDate ==
    isServiceCall =>
        /\ clock.hours < 3 => call.ret = classifyDate(clock.day - 1, call.args[1])
        /\ (clock.hours = 3 /\ clock.minutes = 0) =>
               call.ret = classifyDate(clock.day, call.args[1])

----------------------------------------------------------------------------
(* Properties of formatTime (SpecFormat) *)

isFormatCall == call.fn = "formatTime"

twoDigits(n) == ToString(n \div 10) \o ToString(n % 10)

\* the 12-hour rendering of hour-of-day h24 and minute mm
clockText(h24, mm) ==
    LET hourText == IF h24 = 0 THEN "12"
                    ELSE IF h24 <= 12 THEN ToString(h24)
                    ELSE ToString(h24 - 12)
        suffix   == IF h24 <= 11 THEN "am" ELSE "pm"
    IN  hourText \o ":" \o twoDigits(mm) \o suffix

\* C6: formatTime(m) = formatTime(m + 1440), and formatTime(m) shows hour
\* floor(m/60) mod 24 in 12-hour form with am/pm and the minutes m mod 60
\* zero-padded to two digits.
C6_FormatPeriodicAndTwelveHour ==
    isFormatCall =>
        LET m == call.args[1]
        IN  /\ call.ret = formatTime(m + 1440)
            /\ call.ret = clockText((m \div 60) % 24, m % 60)

\* 24:14 of the service day, shown as 12:14am
C6_Witness ==
    /\ isFormatCall
    /\ call.args[1] = 1454
    /\ call.ret = "12:14am"

----------------------------------------------------------------------------
(* Properties of the compaction of arbitrary calendars (SpecCalendar) *)

\* the calendar.txt row that decides service sid: the last one naming it
hasCalendarRow(sid) == \E i \in DOMAIN calendar : calendar[i].service_id = sid
calendarRowOf(sid)  == calendar[LastIndex(calendar, "service_id", sid)]

\* the trips.txt record of the train number of a departure
tripOfTrain(n) == Trips[CHOOSE i \in DOMAIN Trips : Trips[i].trip_short_name = n]

\* the departures of the emitted snapshot
emittedDepartures ==
    UNION {Range(data.schedule[id][dir]) : id \in DOMAIN data.schedule, dir \in Directions}

\* C8, as claimed: a departure of a trip whose service is in the calendar has
\* serviceType 1 whenever the Saturday flag is set, whatever the Monday flag,
\* and 0 otherwise.
C8_SaturdayFlagDecides ==
    pc = "emitted" =>
        \A dep \in emittedDepartures :
            LET sid == tripOfTrain(dep[2]).service_id
            IN  hasCalendarRow(sid) =>
                    dep[4] = IF calendarRowOf(sid).saturday = "1" THEN 1 ELSE 0

\* C8, amended: a departure of a trip whose service is in the calendar has
\* serviceType 0 whenever the Monday flag is set, whatever the Saturday flag,
\* and 1 otherwise (also when neither flag is set).
C8_MondayFlagDecides ==
    pc = "emitted" =>
        \A dep \in emittedDepartures :
            LET sid == tripOfTrain(dep[2]).service_id
            IN  hasCalendarRow(sid) =>
                    dep[4] = IF calendarRowOf(sid).monday = "1" THEN 0 ELSE 1

\* a calendar whose service S1 runs on Monday and on Saturday, and an
\* emitted departure of train 101, a trip of S1, typed Weekday
C8_Witness ==
    /\ pc = "emitted"
    /\ hasCalendarRow("S1")
    /\ calendarRowOf("S1").monday = "1"
    /\ calendarRowOf("S1").saturday = "1"
    /\ \E dep \in emittedDepartures : dep[2] = "101" /\ dep[4] = 0

exceptionDates == {calendarDates[i].date : i \in DOMAIN calendarDates}

\* a service the compactor types Weekday: in the calendar, Monday flag set
weekdayClassified(sid) == hasCalendarRow(sid) /\ calendarRowOf(sid).monday = "1"

\* the exception record i adds a service that is absent from the calendar
addsModified(i) ==
    calendarDates[i].exception_type = "1" /\ ~hasCalendarRow(calendarDates[i].service_id)

\* the exception record i removes a Weekday-classified calendar service
removesWeekday(i) ==
    calendarDates[i].exception_type = "2" /\ weekdayClassified(calendarDates[i].service_id)

\* the value of the holiday map at date d (0: the date is absent), given the
\* set of exception records that count
holidayRule(d, counted) ==
    IF \E i \in counted : calendarDates[i].date = d /\ addsModified(i) THEN 2
    ELSE IF \E i \in counted : calendarDates[i].date = d /\ removesWeekday(i) THEN 1
    ELSE 0

emittedHoliday(d) == IF d \in DOMAIN data.holidays THEN data.holidays[d] ELSE 0

\* C9, as claimed: the rule over all exception records of a date, several
\* records of one date and service included.
C9_HolidayRuleOverAllRecords ==
    pc = "emitted" =>
        /\ DOMAIN data.holidays \subseteq exceptionDates
        /\ \A d \in exceptionDates :
              emittedHoliday(d) = holidayRule(d, DOMAIN calendarDates)

\* the exception records that are the last of their date and service
lastOfDateAndService ==
    {i \in DOMAIN calendarDates :
        \A j \in DOMAIN calendarDates :
            (calendarDates[j].date = calendarDates[i].date
             /\ calendarDates[j].service_id = calendarDates[i].service_id) => j <= i}

\* C9, amended: the rule over the exception records that are the last of
\* their date and service (a later record of the same date and service
\* replaces an earlier one); every emitted value is 1 or 2.
C9_HolidayRuleOverLastRecords ==
    pc = "emitted" =>
        /\ DOMAIN data.holidays \subseteq exceptionDates
        /\ \A d \in DOMAIN data.holidays : data.holidays[d] \in {1, 2}
        /\ \A d \in exceptionDates :
              emittedHoliday(d) = holidayRule(d, lastOfDateAndService)

\* two records of one date and service, the first adding the exception-only
\* service H and the second removing it: the date is left out of the map
C9_Witness ==
    /\ pc = "emitted"
    /\ Len(calendarDates) >= 2
    /\ calendarDates[1].date = calendarDates[2].date
    /\ calendarDates[1].service_id = "H"
    /\ calendarDates[2].service_id = "H"
    /\ calendarDates[1].exception_type = "1"
    /\ calendarDates[2].exception_type = "2"
    /\ calendarDates[1].date \notin DOMAIN data.holidays

\* the YYYYMMDD dates of the calendars, as numbers
dateNumber(d) ==
    CASE d = "20260101" -> 20260101
      [] d = "20260201" -> 20260201
      [] d = "20260630" -> 20260630
      [] d = "20261231" -> 20261231

\* C11: in the emitted snapshot validFrom is the earliest start_date and
\* validTo the latest end_date over all rows of the calendar, whatever the
\* order of the rows.
C11_ValidityIsCalendarRange ==
    (pc = "emitted" /\ Len(calendar) > 0) =>
        /\ \E i \in DOMAIN calendar : data.validFrom = calendar[i].start_date
        /\ \E i \in DOMAIN calendar : data.validTo = calendar[i].end_date
        /\ \A i \in DOMAIN calendar :
              /\ dateNumber(data.validFrom) <= dateNumber(calendar[i].start_date)
              /\ dateNumber(data.validTo) >= dateNumber(calendar[i].end_date)

\* C13: every departure of a trip whose service is absent from the calendar
\* is emitted with serviceType 2, in the fourth position of a
\* [minute, trainNumber, routeType, serviceType] tuple, and every emitted
\* serviceType is 0, 1 or 2.
C13_ExceptionOnlyServiceIsModified ==
    pc = "emitted" =>
        \A dep \in emittedDepartures :
            /\ Len(dep) = 4
            /\ dep[1] \in Nat
            /\ dep[4] \in {0, 1, 2}
            /\ \A i \in DOMAIN Trips :
                  (Trips[i].trip_short_name = dep[2]
                   /\ ~hasCalendarRow(Trips[i].service_id)) => dep[4] = 2

\* the 08:20 departure of train M1, a trip of the exception-only service H,
\* emitted at station A as Modified, next to a departure of a calendar service
C13_Witness ==
    /\ pc = "emitted"
    /\ ~hasCalendarRow("H")
    /\ \E k \in DOMAIN data.schedule["A"].s :
          data.schedule["A"].s[k] = <<500, "M1", 0, 2>>
    /\ \E dep \in emittedDepartures : dep[2] = "101" /\ dep[4] \in {0, 1}

----------------------------------------------------------------------------
(* Properties of the query as an operation on the snapshot (Spec) *)

----------------------------------------------------------------------------
(* Properties of the query late at night (SpecQuery) *)

\* the values getCurrentMinutes yields that lie beyond the end of the
\* service day: 02:01 to 02:59 on the wall clock
LateNight == (endOfDay + 1)..(24 * 60 + 179)

\* C16: getCurrentMinutes yields values up to 1619 (02:59), the query admits
\* minutes up to 1560 only, so for nowMinutes in 1561..1619 the query returns
\* the empty list whatever the buckets hold.
C16_LateNightQueryIsEmpty ==
    /\ getCurrentMinutes(Some(2), Some(1), clock) = 1561
    /\ getCurrentMinutes(Some(2), Some(59), clock) = 1619
    /\ (isQuery /\ call.args[2] \in LateNight) => call.ret = <<>>
    /\ call = NoCall =>
          \A now \in LateNight, s \in ServiceTypes :
              filterTrainsByDestination(originTrains, destTrains, s, now) = <<>>

\* a query at 02:01 on buckets holding a departure at minute 1561 whose
\* service type and train number match: nothing is returned
C16_Witness ==
    /\ isQuery
    /\ call.args[2] = endOfDay + 1
    /\ call.ret = <<>>
    /\ \E i \in DOMAIN originTrains :
          /\ originTrains[i][1] >= call.args[2]
          /\ originTrains[i][4] = call.args[1]
          /\ originTrains[i][2] \in destTrainNums(destTrains, call.args[1])

----------------------------------------------------------------------------
(* Properties of the service worker (SpecWorker) *)

\* the entry of the worker's cache for a request, or undefined
cachedEntry(request) ==
    IF CACHE_NAME \in DOMAIN caches /\ request \in DOMAIN caches[CACHE_NAME]
    THEN Some(caches[CACHE_NAME][request])
    ELSE Null

\* no cache.put of the request is pending
writesCompleted(request) == \A p \in puts : p.request # request

\* C15: fetch handling is network-first with cache fallback.  An event whose
\* network fetch succeeded hands the network response to the page, and its
\* copy is pending or stored in the cache caltrain-quick-v1; an event whose
\* network fetch failed hands the page a cached entry, which exists for
\* every asset; and once every pending cache write of a request has
\* completed, the cache holds the response of the most recently completed
\* successful network fetch of that request.
C15_NetworkFirstCacheHoldsLatest ==
    /\ \A i \in DOMAIN events :
          (events[i].stage = "responded" /\ events[i].outcome = "network") =>
              /\ events[i].response # Null
              /\ \/ \E p \in puts : p.event = i /\ Some(p.response) = events[i].response
                 \/ cachedEntry(events[i].request) # Null
    /\ \A i \in DOMAIN events :
          (events[i].stage = "responded" /\ events[i].outcome = "failed"
           /\ events[i].request \in Range(ASSETS)) =>
              events[i].response # Null
    /\ \A r \in DOMAIN lastFetched :
          writesCompleted(r) => cachedEntry(r) = Some(lastFetched[r])

====
